---- MODULE Spec2Model ----
(***************************************************************************)
(* Model of src/main.py: the multi-exchange intraday engine.  One run of   *)
(* the script is one refresh cycle; st.session_state (capital, positions,  *)
(* alerts, equity_curve) survives from one run to the next.                *)
(*                                                                         *)
(* Number representation.  The script computes with binary floats; the     *)
(* model computes exactly, in fixed point:                                 *)
(*   - prices, EMA values, capital and equity: thousandths of a dollar     *)
(*     (100.00 dollars is 100000);                                         *)
(*   - RSI and scores: thousandths of a point (25.0 is 25000);             *)
(*   - stop_loss, take_profit, trailing_stop: millionths of a dollar, the  *)
(*     product of a price in thousandths and a factor in per-mille         *)
(*     (102.485 dollars is 102485000);                                     *)
(*   - shares: whole numbers (the script floor-divides).                   *)
(* round(x, 2) is Round2, to the nearest multiple of 10 thousandths.  NaN  *)
(* is the one float value that the quantities of the model, which are all  *)
(* >= 0 otherwise, cannot take; it is modelled by the value NaN below and  *)
(* the arithmetic (Add, Mul, FloorDiv, the comparisons) treats it as IEEE  *)
(* arithmetic does.                                                        *)
(***************************************************************************)
EXTENDS Integers, Sequences, FiniteSets, TLC

\* ---------------------------------------------------------------- settings
\* INITIAL_CAPITAL = 100000 dollars, in thousandths of a dollar.
INITIAL_CAPITAL == 100000000
TOP_N == 5
\* STOP_LOSS = 0.5 percent and TAKE_PROFIT = 1.0 percent, in per-mille.
STOP_LOSS == 5
TAKE_PROFIT == 10
TRAILING_STOP == TRUE

\* Number of refresh cycles (runs of the script) explored.
MaxCycles == 3

\* ------------------------------------------------------------ float values
NaN == -1

IsNaN(x) == x = NaN

Add(a, b) == IF IsNaN(a) \/ IsNaN(b) THEN NaN ELSE a + b

Mul(a, b) == IF IsNaN(a) \/ IsNaN(b) THEN NaN ELSE a * b

\* Comparisons with NaN are false.
Gt(a, b) == ~IsNaN(a) /\ ~IsNaN(b) /\ a > b

Lt(a, b) == ~IsNaN(a) /\ ~IsNaN(b) /\ a < b

\* round(x, 2) of a value in thousandths: the nearest multiple of 10, a tie
\* going to the even hundredth.
Round2(x) ==
    IF IsNaN(x) THEN NaN
    ELSE LET r == x % 10
             lo == x - r
         IN  IF r < 5 THEN lo
             ELSE IF r > 5 THEN lo + 10
             ELSE IF (lo \div 10) % 2 = 0 THEN lo ELSE lo + 10

\* ------------------------------------------------------------- stock lists
\* Exchanges in the insertion order of the stocks dict, each with its tickers
\* in list order (two exchanges, of two tickers and one, stand for the three
\* lists of ten).
Exchanges == <<"TSX", "NASDAQ">>

stocks == [TSX |-> <<"SHOP.TO", "SU.TO">>, NASDAQ |-> <<"AAPL">>]

ExchangeSet == {Exchanges[i] : i \in 1..Len(Exchanges)}

SeqRange(s) == {s[i] : i \in 1..Len(s)}

Tickers == UNION {SeqRange(stocks[x]) : x \in ExchangeSet}

\* ---------------------------------------------------------- signal function
\* The last bar of a downloaded frame after the three indicator columns are
\* added: Close, EMA10, EMA30, RSI7 (an indicator is NaN while the series is
\* shorter than its window).
Bar(close, ema10, ema30, rsi7) ==
    [empty |-> FALSE, Close |-> close, EMA10 |-> ema10, EMA30 |-> ema30,
     RSI7 |-> rsi7]

\* generate_signal: (signal, last Close, score) of the last bar.  The percent
\* spread (a - b) / b * 100 is taken in thousandths of a point.
Spread(a, b) == ((a - b) * 100000) \div b

\* Mutant of generate_signal: the RSI thresholds are met by equality too.
generate_signalInclusive(last) ==
    IF Gt(last.EMA10, last.EMA30) /\ ~Gt(last.RSI7, 70000) /\ ~IsNaN(last.RSI7)
    THEN [Signal |-> 1, Price |-> last.Close,
          Score |-> Spread(last.EMA10, last.EMA30) + (70000 - last.RSI7)]
    ELSE IF Lt(last.EMA10, last.EMA30) /\ ~Lt(last.RSI7, 30000) /\ ~IsNaN(last.RSI7)
    THEN [Signal |-> -1, Price |-> last.Close,
          Score |-> Spread(last.EMA30, last.EMA10) + (last.RSI7 - 30000)]
    ELSE [Signal |-> 0, Price |-> last.Close, Score |-> 0]

generate_signal(last) ==
    IF Gt(last.EMA10, last.EMA30) /\ Lt(last.RSI7, 70000)
    THEN [Signal |-> 1, Price |-> last.Close,
          Score |-> Spread(last.EMA10, last.EMA30) + (70000 - last.RSI7)]
    ELSE IF Lt(last.EMA10, last.EMA30) /\ Gt(last.RSI7, 30000)
    THEN [Signal |-> -1, Price |-> last.Close,
          Score |-> Spread(last.EMA30, last.EMA10) + (last.RSI7 - 30000)]
    ELSE [Signal |-> 0, Price |-> last.Close, Score |-> 0]

\* ------------------------------------------------------------- market data
\* What yf.download returns for a ticker in one cycle: an empty frame (an
\* exception skips the ticker the same way) or a frame, given by its last bar.
NoData == [empty |-> TRUE, Close |-> 0, EMA10 |-> 0, EMA30 |-> 0, RSI7 |-> 0]

Feed ==
    [ t \in Tickers |->
        IF t = "SHOP.TO" THEN
            { Bar(100000, 105000, 100000, 50000)    \* long, score 25.0
            , Bar(103000, 100000, 105000, 50000)    \* short
            , Bar(102000, 105000, 100000, 75000) }  \* neutral (RSI >= 70)
        ELSE IF t = "SU.TO" THEN
            { Bar(100504, 100001, 100000, 69997)    \* long, score 0.004
            , Bar(99000, 105000, 100000, 65000) }   \* long, score 10.0
        ELSE
            { Bar(103000, 105000, 100000, 50000)    \* long, score 25.0
            , Bar(100000, 101000, NaN, 50000) }     \* fewer than 30 bars
    ]

\* The downloads of one cycle: for every ticker an empty frame or one of its
\* frames.
Downloads ==
    { d \in [Tickers -> {NoData} \cup UNION {Feed[t] : t \in Tickers}] :
        \A t \in Tickers : d[t] = NoData \/ d[t] \in Feed[t] }

\* ------------------------------------------------------------------ state
VARIABLES
    capital,           \* st.session_state.capital
    positions,         \* st.session_state.positions: the dict in insertion
                       \* order, a sequence of [ticker, lots]
    alerts,            \* st.session_state.alerts
    equity_curve,      \* st.session_state.equity_curve
    exchange_results,  \* exchange -> rows of this run's results frame
    pc,                \* the section of the script that runs next
    cycle              \* number of runs of the script started

vars == <<capital, positions, alerts, equity_curve, exchange_results, pc, cycle>>

Init ==
    /\ capital = INITIAL_CAPITAL
    /\ positions = <<>>
    /\ alerts = <<>>
    /\ equity_curve = <<INITIAL_CAPITAL>>
    /\ exchange_results = [x \in ExchangeSet |-> <<>>]
    /\ pc = "fetch"
    /\ cycle = 0

\* ------------------------------------------- fetch data, generate signals
\* The rows appended to results for the tickers tk[i..], given the downloads
\* (the DF of a row is the frame with its indicator columns, here its last
\* bar).
RECURSIVE Results(_, _, _)
Results(tk, i, d) ==
    IF i > Len(tk) THEN <<>>
    ELSE IF d[tk[i]].empty THEN Results(tk, i + 1, d)
    ELSE LET g == generate_signal(d[tk[i]])
         IN  <<[Stock |-> tk[i], Signal |-> g.Signal, Price |-> g.Price,
                Score |-> g.Score, DF |-> d[tk[i]]]>> \o Results(tk, i + 1, d)

Fetch ==
    /\ pc = "fetch"
    /\ cycle < MaxCycles
    /\ \E d \in Downloads :
          exchange_results' = [x \in ExchangeSet |-> Results(stocks[x], 1, d)]
    /\ cycle' = cycle + 1
    /\ pc' = "tabs"
    /\ UNCHANGED <<capital, positions, alerts, equity_curve>>

\* ------------------------------------------------------- top buy signals
\* The rows of s satisfying Signal == 1, in frame order.
RECURSIVE BuyRows(_, _)
BuyRows(s, i) ==
    IF i > Len(s) THEN <<>>
    ELSE IF s[i].Signal = 1 THEN <<s[i]>> \o BuyRows(s, i + 1)
    ELSE BuyRows(s, i + 1)

\* Indices of the rows of greatest Score.
MaxRows(s) == {i \in 1..Len(s) : \A j \in 1..Len(s) : s[j].Score <= s[i].Score}

Remove(s, i) == SubSeq(s, 1, i - 1) \o SubSeq(s, i + 1, Len(s))

\* sort_values(by="Score", ascending=False), kind left at its default
\* "quicksort", which is not a stable sort: numpy's argsort keeps rows of
\* equal Score in frame order in its scalar build and not in its vectorized
\* builds.  The set of the orders the call can return: every descending order,
\* rows of equal Score in any order.
RECURSIVE sort_values(_)
sort_values(s) ==
    IF s = <<>> THEN {<<>>}
    ELSE UNION {{<<s[i]>> \o r : r \in sort_values(Remove(s, i))} : i \in MaxRows(s)}

head(s, n) == SubSeq(s, 1, IF Len(s) < n THEN Len(s) ELSE n)

\* The frames buy_signals can be.
buy_signals(df) == {head(o, TOP_N) : o \in sort_values(BuyRows(df, 1))}

\* One row of top_signals_list: the price and the score rounded to 2 places
\* (the "Sell Price" column is displayed and never read).
TopRow(row) ==
    [Stock |-> row.Stock,
     BuyPrice |-> Round2(row.Price),
     Score |-> Round2(row.Score)]

\* df_top_signals, for each frame buy_signals can be.
df_top_signals(df) ==
    {[i \in 1..Len(b) |-> TopRow(b[i])] : b \in buy_signals(df)}

RECURSIVE SumScore(_, _)
SumScore(top, i) ==
    IF i > Len(top) THEN 0 ELSE top[i].Score + SumScore(top, i + 1)

total_score(top) == IF top = <<>> THEN 1 ELSE SumScore(top, 1)

\* ---------------------------------------------------------- open positions
\* floor(c * s / t) for c, s >= 0 and t > 0, without forming c * s.
MulDiv(c, s, t) == (c \div t) * s + ((c % t) * s) \div t

\* allocation = capital * (score / total_score), in thousandths of a dollar
\* (cut below the thousandth, which leaves shares unchanged).  A total of zero
\* is a sum of zero scores: score / total_score is 0.0 / 0.0, NaN in numpy.
Allocation(cap, score, total) ==
    IF total = 0 \/ IsNaN(cap) THEN NaN ELSE MulDiv(cap, score, total)

\* allocation // price, price > 0.
FloorDiv(a, price) == IF IsNaN(a) THEN NaN ELSE a \div price

Shares(cap, score, total, price) ==
    FloorDiv(Allocation(cap, score, total), price)

\* Mutant of NewPosition: the take profit is set from STOP_LOSS.
NewPositionWrongTarget(price, shares) ==
    [entry |-> price,
     shares |-> shares,
     status |-> "open",
     stop_loss |-> price * (1000 - STOP_LOSS),
     take_profit |-> price * (1000 + STOP_LOSS),
     trailing_stop |-> price * (1000 - STOP_LOSS)]

\* The dict appended to positions[ticker].
NewPosition(price, shares) ==
    [entry |-> price,
     shares |-> shares,
     status |-> "open",
     stop_loss |-> price * (1000 - STOP_LOSS),
     take_profit |-> price * (1000 + TAKE_PROFIT),
     trailing_stop |-> price * (1000 - STOP_LOSS)]

Keys(pos) == {pos[k].ticker : k \in 1..Len(pos)}

KeyIndex(pos, t) == CHOOSE k \in 1..Len(pos) : pos[k].ticker = t

\* Mutant of AppendLot: the list of the ticker is replaced by the new dict.
AppendLotOverwrite(pos, t, p) ==
    IF t \in Keys(pos)
    THEN [pos EXCEPT ![KeyIndex(pos, t)].lots = <<p>>]
    ELSE Append(pos, [ticker |-> t, lots |-> <<p>>])

\* positions[ticker].append(p), the key created at the end of the dict when
\* the ticker has none.
AppendLot(pos, t, p) ==
    IF t \in Keys(pos)
    THEN [pos EXCEPT ![KeyIndex(pos, t)].lots = Append(@, p)]
    ELSE Append(pos, [ticker |-> t, lots |-> <<p>>])

BuyAlert(t, price) == [kind |-> "buy", ticker |-> t, price |-> Round2(price)]

\* The loop over the rows top[i..] of one exchange; st is [positions, alerts].
\* capital is read at every row and written at none.
RECURSIVE OpenRows(_, _, _, _, _)
OpenRows(top, i, total, cap, st) ==
    IF i > Len(top) THEN st
    ELSE LET row == top[i]
             shares == Shares(cap, row.Score, total, row.BuyPrice)
         IN  OpenRows(top, i + 1, total, cap,
                 [positions |-> AppendLot(st.positions, row.Stock,
                                          NewPosition(row.BuyPrice, shares)),
                  alerts |-> Append(st.alerts, BuyAlert(row.Stock, row.BuyPrice))])

\* The body of one tab: an empty frame is skipped with a warning.  The states
\* st can be left in, one for each frame df_top_signals can be.
OpenExchange(df, cap, st) ==
    IF df = <<>> THEN {st}
    ELSE {OpenRows(top, 1, total_score(top), cap, st) : top \in df_top_signals(df)}

RECURSIVE OpenTabs(_, _, _, _)
OpenTabs(i, er, cap, st) ==
    IF i > Len(Exchanges) THEN {st}
    ELSE UNION {OpenTabs(i + 1, er, cap, st1) :
                   st1 \in OpenExchange(er[Exchanges[i]], cap, st)}

Tabs ==
    /\ pc = "tabs"
    /\ \E st \in OpenTabs(1, exchange_results, capital,
                          [positions |-> positions, alerts |-> alerts]) :
          /\ positions' = st.positions
          /\ alerts' = st.alerts
    /\ pc' = "check"
    /\ UNCHANGED <<capital, equity_curve, exchange_results, cycle>>

\* ------------------------------------ check positions for SL/TP/trailing
\* The search of a ticker's price through exchange_results, in dict order.
\* pd.DataFrame([]) has no columns: exchange_df["Stock"] raises KeyError on
\* the frame of an exchange with no results.
RECURSIVE Lookup(_, _, _)
Lookup(i, t, er) ==
    IF i > Len(Exchanges) THEN [kind |-> "none", price |-> 0]
    ELSE LET df == er[Exchanges[i]]
         IN  IF df = <<>> THEN [kind |-> "KeyError", price |-> 0]
             ELSE IF \E r \in 1..Len(df) : df[r].Stock = t
             THEN [kind |-> "price",
                   price |-> df[CHOOSE r \in 1..Len(df) :
                                   /\ df[r].Stock = t
                                   /\ \A q \in 1..(r - 1) : df[q].Stock # t].Price]
             ELSE Lookup(i + 1, t, er)

\* Mutant of PriceOf: a ticker without a price is evaluated at price 0.
PriceOfOrZero(t, er) ==
    LET f == Lookup(1, t, er)
    IN  IF f.kind = "none" THEN [kind |-> "price", price |-> 0] ELSE f

\* df_price of a ticker: [kind, price], kind "price", "none" (df_price is
\* None) or "KeyError".
PriceOf(t, er) == Lookup(1, t, er)

Max(a, b) == IF b > a THEN b ELSE a

\* Mutant of Ratchet: the trailing stop follows the price down as well as up.
RatchetNoMax(ts, price) ==
    IF TRAILING_STOP THEN price * (1000 - STOP_LOSS) ELSE ts

\* pos["trailing_stop"] = max(pos["trailing_stop"], df_price * (1 - STOP_LOSS/100))
Ratchet(ts, price) ==
    IF TRAILING_STOP THEN Max(ts, price * (1000 - STOP_LOSS)) ELSE ts

\* Mutant of EvaluateExit: the take-profit test is left out.
EvaluateExitNoTakeProfit(pos, price) ==
    LET ts == Ratchet(pos.trailing_stop, price)
        p1 == [pos EXCEPT !.trailing_stop = ts]
    IN  IF price * 1000 <= ts
        THEN [pos |-> [p1 EXCEPT !.status = "closed"], reason |-> "trailing"]
        ELSE [pos |-> p1, reason |-> "none"]

\* Mutant of EvaluateExit: the stop loss is moved along with the trailing stop.
EvaluateExitMovesStopLoss(pos, price) ==
    LET ts == Ratchet(pos.trailing_stop, price)
        p1 == [pos EXCEPT !.trailing_stop = ts, !.stop_loss = ts]
    IN  IF price * 1000 <= ts
        THEN [pos |-> [p1 EXCEPT !.status = "closed"], reason |-> "trailing"]
        ELSE IF price * 1000 >= pos.take_profit
        THEN [pos |-> [p1 EXCEPT !.status = "closed"], reason |-> "take_profit"]
        ELSE [pos |-> p1, reason |-> "none"]

\* Mutant of EvaluateExit: the take-profit test comes first.
EvaluateExitTakeProfitFirst(pos, price) ==
    LET ts == Ratchet(pos.trailing_stop, price)
        p1 == [pos EXCEPT !.trailing_stop = ts]
    IN  IF price * 1000 >= pos.take_profit
        THEN [pos |-> [p1 EXCEPT !.status = "closed"], reason |-> "take_profit"]
        ELSE IF price * 1000 <= ts
        THEN [pos |-> [p1 EXCEPT !.status = "closed"], reason |-> "trailing"]
        ELSE [pos |-> p1, reason |-> "none"]

\* The body of the loop for one open position at df_price: the position after
\* it and the reason it was closed for ("none" when it stays open).
EvaluateExit(pos, price) ==
    LET ts == Ratchet(pos.trailing_stop, price)
        p1 == [pos EXCEPT !.trailing_stop = ts]
    IN  IF price * 1000 <= ts
        THEN [pos |-> [p1 EXCEPT !.status = "closed"], reason |-> "trailing"]
        ELSE IF price * 1000 >= pos.take_profit
        THEN [pos |-> [p1 EXCEPT !.status = "closed"], reason |-> "take_profit"]
        ELSE [pos |-> p1, reason |-> "none"]

\* Mutant of IsOpen: the status of a position is not looked at.
IsOpenAlways(pos) == TRUE

\* pos["status"] == "open"
IsOpen(pos) == pos.status = "open"

\* Mutant of Settle: the close is debited.
SettleDebit(cap, shares, price) ==
    IF IsNaN(cap) \/ IsNaN(Mul(shares, price)) THEN NaN
    ELSE cap - Mul(shares, price)

\* Mutant of Settle: the close is credited twice.
SettleTwice(cap, shares, price) ==
    Add(Add(cap, Mul(shares, price)), Mul(shares, price))

\* st.session_state.capital += pos["shares"] * df_price
Settle(cap, shares, price) == Add(cap, Mul(shares, price))

CloseAlert(reason, t, price) ==
    [kind |-> reason, ticker |-> t, price |-> Round2(price)]

\* The loop over the lots k.lots[i..] of the k-th key at df_price; st is
\* [positions, capital, alerts, error].
RECURSIVE CheckLots(_, _, _, _)
CheckLots(k, i, price, st) ==
    IF i > Len(st.positions[k].lots) THEN st
    ELSE LET pos == st.positions[k].lots[i]
         IN  IF ~IsOpen(pos) THEN CheckLots(k, i + 1, price, st)
             ELSE LET e == EvaluateExit(pos, price)
                      st1 == [st EXCEPT !.positions[k].lots[i] = e.pos]
                  IN  IF e.reason = "none" THEN CheckLots(k, i + 1, price, st1)
                      ELSE CheckLots(k, i + 1, price,
                               [st1 EXCEPT
                                  !.capital = Settle(@, pos.shares, price),
                                  !.alerts = Append(@,
                                      CloseAlert(e.reason, st.positions[k].ticker,
                                                 price))])

\* The loop over positions.items() from the k-th key on; a KeyError ends the
\* run of the script with what was written to the session state so far.
RECURSIVE CheckKeys(_, _, _)
CheckKeys(k, er, st) ==
    IF k > Len(st.positions) THEN st
    ELSE LET f == PriceOf(st.positions[k].ticker, er)
         IN  IF f.kind = "KeyError" THEN [st EXCEPT !.error = TRUE]
             ELSE IF f.kind = "none" THEN CheckKeys(k + 1, er, st)
             ELSE CheckKeys(k + 1, er, CheckLots(k, 1, f.price, st))

CheckPositions ==
    /\ pc = "check"
    /\ LET st == CheckKeys(1, exchange_results,
                           [positions |-> positions, capital |-> capital,
                            alerts |-> alerts, error |-> FALSE])
       IN  /\ positions' = st.positions
           /\ capital' = st.capital
           /\ alerts' = st.alerts
           /\ pc' = IF st.error THEN "error" ELSE "equity"
    /\ UNCHANGED <<equity_curve, exchange_results, cycle>>

\* ------------------------------------------------------ update equity curve
\* Mutant of OpenValue: the closed positions are valued too.
RECURSIVE OpenValueAll(_, _, _)
OpenValueAll(lots, i, price) ==
    IF i > Len(lots) THEN 0
    ELSE Add(Mul(lots[i].shares, price), OpenValueAll(lots, i + 1, price))

\* sum(p["shares"] * df_price for p in pos_list if p["status"] == "open")

RECURSIVE OpenValue(_, _, _)
OpenValue(lots, i, price) ==
    IF i > Len(lots) THEN 0
    ELSE IF IsOpen(lots[i])
    THEN Add(Mul(lots[i].shares, price), OpenValue(lots, i + 1, price))
    ELSE OpenValue(lots, i + 1, price)

\* total_value after the keys k.. are added to tv; [value, error].
RECURSIVE TotalValue(_, _, _, _)
TotalValue(k, pos, er, tv) ==
    IF k > Len(pos) THEN [value |-> tv, error |-> FALSE]
    ELSE LET f == PriceOf(pos[k].ticker, er)
         IN  IF f.kind = "KeyError" THEN [value |-> tv, error |-> TRUE]
             ELSE IF f.kind = "none" THEN TotalValue(k + 1, pos, er, tv)
             ELSE TotalValue(k + 1, pos, er,
                             Add(tv, OpenValue(pos[k].lots, 1, f.price)))

\* The snapshot, then the sleep and the rerun of the script.
UpdateEquity ==
    /\ pc = "equity"
    /\ LET tv == TotalValue(1, positions, exchange_results, capital)
       IN  IF tv.error
           THEN /\ pc' = "error"
                /\ UNCHANGED equity_curve
           ELSE /\ equity_curve' = Append(equity_curve, tv.value)
                /\ pc' = "fetch"
    /\ UNCHANGED <<capital, positions, alerts, exchange_results, cycle>>

Next == Fetch \/ Tabs \/ CheckPositions \/ UpdateEquity

Spec == Init /\ [][Next]_vars

\* ------------------------------------------------- a run with a wide group
\* The first six tickers of the TSX list: a group wider than TOP_N.
WideTSX == <<"SHOP.TO", "SU.TO", "RY.TO", "TD.TO", "BNS.TO", "ENB.TO">>

WideFeed ==
    { Bar(100000, 105000, 100000, 50000)    \* long, score 25.0
    , Bar(99000, 105000, 100000, 65000)     \* long, score 10.0
    , Bar(103000, 100000, 105000, 50000) }  \* short

WideDownloads == [SeqRange(WideTSX) -> WideFeed \cup {NoData}]

\* The fetch of the first run of the script, for the tickers of WideTSX.
FetchWide ==
    /\ pc = "fetch"
    /\ cycle = 0
    /\ \E d \in WideDownloads :
          exchange_results' =
              [x \in ExchangeSet |->
                  IF x = "TSX" THEN Results(WideTSX, 1, d) ELSE <<>>]
    /\ cycle' = cycle + 1
    /\ pc' = "tabs"
    /\ UNCHANGED <<capital, positions, alerts, equity_curve>>

NextWide == FetchWide \/ Tabs

SpecWide == Init /\ [][NextWide]_vars

\* ------------------------------------------- a run over the signal's cases
\* Last bars on every side of the comparisons of generate_signal, the
\* indicators undefined included.
SignalFeed ==
    { Bar(c, s, l, r) : c \in {100000, 101000},
                        s \in {95000, 103000, 105000, NaN},
                        l \in {100000, 103000, NaN},
                        r \in {25000, 30000, 50000, 70000, 75000, NaN} }

\* The fetch of the first run of the script when SHOP.TO alone has data.
FetchSignal ==
    /\ pc = "fetch"
    /\ cycle = 0
    /\ \E b \in SignalFeed :
          exchange_results' =
              [x \in ExchangeSet |->
                  Results(stocks[x], 1,
                          [t \in Tickers |-> IF t = "SHOP.TO" THEN b ELSE NoData])]
    /\ cycle' = cycle + 1
    /\ pc' = "tabs"
    /\ UNCHANGED <<capital, positions, alerts, equity_curve>>

NextSignal == FetchSignal \/ Tabs

SpecSignal == Init /\ [][NextSignal]_vars

\* ------------------------------------------ the exit rule on any position
\* The exit rule as a function of a position dict and a price.  The dicts are
\* those of a position entered at 100.00 with its trailing stop anywhere from
\* the stop loss to above the take profit; the runs of Spec reach the open
\* ones with a trailing stop below the take profit only.
ExitLots ==
    { [NewPosition(100000, 10) EXCEPT !.trailing_stop = ts, !.status = s] :
        ts \in {99500000, 100500000, 101000000, 101500000, 102485000, 103000000},
        s \in {"open", "closed"} }

ExitPrices == {99000, 100000, 101000, 101500, 102000, 103000}

\* The script at its exit evaluation, SHOP.TO holding one position and
\* quoted at a price.
InitExit ==
    /\ capital = INITIAL_CAPITAL
    /\ \E lot \in ExitLots :
          positions = <<[ticker |-> "SHOP.TO", lots |-> <<lot>>]>>
    /\ alerts = <<BuyAlert("SHOP.TO", 100000)>>
    /\ equity_curve = <<INITIAL_CAPITAL>>
    /\ \E p \in ExitPrices :
          exchange_results =
              [x \in ExchangeSet |->
                  Results(stocks[x], 1,
                          [t \in Tickers |->
                              IF t = "SHOP.TO" THEN Bar(p, 100000, 100000, 50000)
                              ELSE NoData])]
    /\ pc = "check"
    /\ cycle = 1

NextExit == CheckPositions \/ UpdateEquity

SpecExit == InitExit /\ [][NextExit]_vars

\* ------------------------------------------------------------- properties
\* The lots of a positions dict, as pairs <<key index, lot index>>.
AllLots(pos) ==
    UNION {{<<k, i>> : i \in 1..Len(pos[k].lots)} : k \in 1..Len(pos)}

LotAt(pos, ki) == pos[ki[1]].lots[ki[2]]

\* The lots that are open in pos and closed in pos2.
Closing(pos, pos2) ==
    {ki \in AllLots(pos) :
        LotAt(pos, ki).status = "open" /\ LotAt(pos2, ki).status = "closed"}

\* The lots of pos2 that pos does not hold.
Opened(pos, pos2) == AllLots(pos2) \ AllLots(pos)

\* This cycle's price of the ticker of the k-th key (0 when it has none).
CyclePrice(pos, k) == Lookup(1, pos[k].ticker, exchange_results).price

HasPrice(pos, k) == Lookup(1, pos[k].ticker, exchange_results).kind = "price"

\* Sum of the function f over its finite domain, NaN if a term is NaN.
RECURSIVE SumOver(_, _)
SumOver(S, f) ==
    IF S = {} THEN 0
    ELSE LET x == CHOOSE y \in S : TRUE IN Add(f[x], SumOver(S \ {x}, f))

\* shares * df_price summed over the lots closed between pos and pos2.
Credits(pos, pos2) ==
    LET S == Closing(pos, pos2)
    IN  SumOver(S, [ki \in S |->
                       Mul(LotAt(pos, ki).shares, CyclePrice(pos, ki[1]))])

\* shares * entry summed over the lots opened between pos and pos2.
OpenedCost(pos, pos2) ==
    LET S == Opened(pos, pos2)
    IN  SumOver(S, [ki \in S |->
                       Mul(LotAt(pos2, ki).shares, LotAt(pos2, ki).entry)])

CloseKinds == {"trailing", "take_profit"}

\* The entries appended to the alert log between al and al2.
Appended(al, al2) == SubSeq(al2, Len(al) + 1, Len(al2))

CountKind(al, K) == Cardinality({j \in 1..Len(al) : al[j].kind \in K})

\* C1: in every step cash grows by exactly shares * price summed over the
\* positions that go from open to closed in that step (by nothing when none
\* does), and a closed position is never open again, so no position is
\* credited twice.
C1_CashConservation ==
    [][/\ capital' = Add(capital, Credits(positions, positions'))
       /\ \A ki \in AllLots(positions) :
             LotAt(positions, ki).status = "closed"
                 => LotAt(positions', ki).status = "closed"]_vars

\* A trailing-stop close and a take-profit close have both been credited.
C1_Witness ==
    /\ capital > INITIAL_CAPITAL
    /\ \E a, b \in 1..Len(alerts) :
          alerts[a].kind = "trailing" /\ alerts[b].kind = "take_profit"

\* C2: every step that appends open positions reduces cash by the sum of
\* shares * entry of the positions it appends.
C2_OpenDebitsCash ==
    [][Opened(positions, positions') # {}
         => LET cost == OpenedCost(positions, positions')
            IN  capital' = IF IsNaN(capital) \/ IsNaN(cost) THEN NaN
                           ELSE capital - cost]_vars

\* C3: the positions opened in one cycle (all exchanges, one Tabs step) cost
\* together no more than the cash at the start of the cycle.
C3_NoOverspend ==
    [][LET cost == OpenedCost(positions, positions')
       IN  IsNaN(cost) \/ IsNaN(capital) \/ cost <= capital]_vars

\* C4: no step lowers the trailing_stop of a position, whatever the prices of
\* the cycle and whether or not the ticker has a price.
C4_TrailingStopMonotone ==
    [][\A ki \in AllLots(positions) :
          LotAt(positions', ki).trailing_stop >= LotAt(positions, ki).trailing_stop]_vars

\* An open position whose trailing stop has been ratcheted above its stop
\* loss, after a cycle has passed it by for want of a price.
C4_Witness ==
    /\ pc = "equity"
    /\ \E ki \in AllLots(positions) :
          /\ LotAt(positions, ki).status = "open"
          /\ LotAt(positions, ki).trailing_stop > LotAt(positions, ki).stop_loss
          /\ ~HasPrice(positions, ki[1])

\* C5: a closed position keeps every field in every later step, keys and lots
\* are only appended, and a step appends exactly one close alert per position
\* it closes and credits cash for those alone.
C5_ClosedIsFinal ==
    [][/\ \A ki \in AllLots(positions) :
             LotAt(positions, ki).status = "closed"
                 => LotAt(positions', ki) = LotAt(positions, ki)
       /\ Len(positions') >= Len(positions)
       /\ \A k \in 1..Len(positions) :
             /\ positions'[k].ticker = positions[k].ticker
             /\ Len(positions'[k].lots) >= Len(positions[k].lots)
       /\ Len(alerts') >= Len(alerts)
       /\ CountKind(Appended(alerts, alerts'), CloseKinds)
             = Cardinality(Closing(positions, positions'))
       /\ capital' = Add(capital, Credits(positions, positions'))]_vars

\* A ticker with a closed position was evaluated again in a later cycle, after
\* a new lot was opened for it.
C5_Witness ==
    /\ pc = "equity"
    /\ \E a, b \in 1..Len(alerts) :
          /\ a < b
          /\ alerts[a].kind \in CloseKinds
          /\ alerts[b].kind = "buy"
          /\ alerts[b].ticker = alerts[a].ticker
          /\ \E k \in 1..Len(positions) :
                /\ positions[k].ticker = alerts[a].ticker
                /\ HasPrice(positions, k)
                /\ positions[k].lots[1].status = "closed"

\* The loop of CheckPositions reaches the k-th key: no KeyError before it or
\* at it.
Evaluated(pos, k) ==
    \A j \in 1..k : Lookup(1, pos[j].ticker, exchange_results).kind # "KeyError"

\* The step evaluates the open lot ki, which has trailing stop ts, at price.
EvaluatedAt(ki, ts, price) ==
    /\ pc = "check"
    /\ Evaluated(positions, ki[1])
    /\ HasPrice(positions, ki[1])
    /\ CyclePrice(positions, ki[1]) = price
    /\ LotAt(positions, ki).entry = 100000
    /\ LotAt(positions, ki).trailing_stop = ts

\* The step appends the close alert of the given kind for the ticker of ki.
ClosedVia(ki, kind, price) ==
    /\ LotAt(positions', ki).status = "closed"
    /\ \E j \in (Len(alerts) + 1)..Len(alerts') :
          alerts'[j] = [kind |-> kind, ticker |-> positions[ki[1]].ticker,
                        price |-> price]

\* Scenario B, the start: a position entered at 100.00 starts with
\* stopLoss 99.50, takeProfit 101.00 and trailingStop 99.50.
ScenarioBStart ==
    \A ki \in Opened(positions, positions') :
        LotAt(positions', ki).entry = 100000
            => /\ LotAt(positions', ki).status = "open"
               /\ LotAt(positions', ki).stop_loss = 99500000
               /\ LotAt(positions', ki).take_profit = 101000000
               /\ LotAt(positions', ki).trailing_stop = 99500000

\* C6 (amended): a position entered at 100.00 starts with stopLoss 99.50,
\* takeProfit 101.00, trailingStop 99.50; evaluated at 103.00 its trailing stop
\* is ratcheted to 102.485 and it closes via TakeProfit at 103.00; evaluated
\* next at 102.00 it is closed already and nothing of it changes.
C6_ScenarioB ==
    [][/\ ScenarioBStart
       /\ \A ki \in AllLots(positions) :
             /\ (EvaluatedAt(ki, 99500000, 103000) /\ LotAt(positions, ki).status = "open")
                   => /\ LotAt(positions', ki).trailing_stop = 102485000
                      /\ ClosedVia(ki, "take_profit", 103000)
             /\ (EvaluatedAt(ki, 102485000, 102000) /\ LotAt(positions, ki).status = "closed")
                   => LotAt(positions', ki) = LotAt(positions, ki)]_vars

\* C6 as claimed: evaluated at 103.00 the position stays open with trailing
\* stop 102.485, and evaluated next at 102.00 it closes via TrailingStop.
C6_ScenarioB_Claimed ==
    [][/\ ScenarioBStart
       /\ \A ki \in AllLots(positions) :
             /\ (EvaluatedAt(ki, 99500000, 103000) /\ LotAt(positions, ki).status = "open")
                   => /\ LotAt(positions', ki).trailing_stop = 102485000
                      /\ LotAt(positions', ki).status = "open"
             /\ (EvaluatedAt(ki, 102485000, 102000) /\ LotAt(positions, ki).status = "open")
                   => ClosedVia(ki, "trailing", 102000)]_vars

\* The position entered at 100.00 was closed by take profit at 103.00 with its
\* trailing stop at 102.485, and the cycle at 102.00 has evaluated its ticker.
C6_Witness ==
    /\ pc = "equity"
    /\ \E ki \in AllLots(positions) :
          /\ LotAt(positions, ki).entry = 100000
          /\ LotAt(positions, ki).status = "closed"
          /\ LotAt(positions, ki).trailing_stop = 102485000
          /\ HasPrice(positions, ki[1])
          /\ CyclePrice(positions, ki[1]) = 102000
          /\ \E j \in 1..Len(alerts) :
                alerts[j] = [kind |-> "take_profit",
                             ticker |-> positions[ki[1]].ticker, price |-> 103000]

\* C7: when an exchange's candidates are sized against cash C >= 0, every
\* share count is a number >= 0, the allocations sum to at most C and so do
\* the costs shares * price.
C7_SizingBounded ==
    (pc = "tabs" /\ ~IsNaN(capital)) =>
        \A x \in ExchangeSet : \A top \in df_top_signals(exchange_results[x]) :
            LET total == total_score(top)
                I == 1..Len(top)
                sh == [i \in I |-> Shares(capital, top[i].Score, total,
                                          top[i].BuyPrice)]
                al == [i \in I |-> Allocation(capital, top[i].Score, total)]
                cost == [i \in I |-> Mul(sh[i], top[i].BuyPrice)]
            IN  /\ \A i \in I : ~IsNaN(sh[i]) /\ sh[i] >= 0
                /\ ~IsNaN(SumOver(I, al)) /\ SumOver(I, al) <= capital
                /\ ~IsNaN(SumOver(I, cost)) /\ SumOver(I, cost) <= capital

\* C8: when the rounded scores of an exchange's candidates sum to zero, the
\* Tabs step opens no position for that exchange, and no position ever holds
\* a NaN share count.
C8_ZeroSumSkipsSizing ==
    [][/\ pc = "tabs" =>
             \A x \in ExchangeSet : \A top \in df_top_signals(exchange_results[x]) :
                 (top # <<>> /\ SumScore(top, 1) = 0)
                     => \A ki \in Opened(positions, positions') :
                           positions'[ki[1]].ticker \notin SeqRange(stocks[x])
       /\ \A ki \in AllLots(positions') : ~IsNaN(LotAt(positions', ki).shares)]_vars

\* C9: no run of the script is aborted, and every run that has ended has
\* appended one entry to equity_curve.
C9_EveryCycleSnapshots ==
    /\ pc # "error"
    /\ pc = "fetch" => Len(equity_curve) = cycle + 1

\* C10: exit evaluation leaves the positions of a ticker without a price as
\* they are and appends no alert for it; cash moves by the credits of the
\* positions closed alone, and not at all when no ticker has a price.
C10_NoPriceNoChange ==
    [][pc = "check" =>
          /\ \A k \in 1..Len(positions) :
                ~HasPrice(positions, k)
                    => /\ positions'[k] = positions[k]
                       /\ \A j \in (Len(alerts) + 1)..Len(alerts') :
                             alerts'[j].ticker # positions[k].ticker
          /\ capital' = Add(capital, Credits(positions, positions'))
          /\ (\A k \in 1..Len(positions) : ~HasPrice(positions, k))
                => capital' = capital /\ alerts' = alerts]_vars

\* Exit evaluation has run to its end past an open position whose ticker has
\* no price in the cycle.
C10_Witness ==
    /\ pc = "equity"
    /\ \E ki \in AllLots(positions) :
          /\ ~HasPrice(positions, ki[1])
          /\ LotAt(positions, ki).status = "open"

\* The open lots whose ticker has a price in this cycle.
OpenPriced(pos) ==
    {ki \in AllLots(pos) :
        LotAt(pos, ki).status = "open" /\ HasPrice(pos, ki[1])}

\* C11: the value a cycle appends to equity_curve is cash after the cycle's
\* settlements plus shares * latest price summed over exactly the positions
\* still open whose ticker has a price in the cycle; closed positions and open
\* positions without a price add nothing.
C11_EquitySnapshot ==
    (pc = "fetch" /\ cycle > 0)
        => LET S == OpenPriced(positions)
           IN  equity_curve[Len(equity_curve)] =
                   Add(capital,
                       SumOver(S, [ki \in S |->
                                      Mul(LotAt(positions, ki).shares,
                                          CyclePrice(positions, ki[1]))]))

\* A snapshot has been taken over a closed position with shares and a price,
\* an open position with a price and an open position without one.
C11_Witness ==
    /\ pc = "fetch" /\ cycle > 0
    /\ \E a, b, c \in AllLots(positions) :
          /\ LotAt(positions, a).status = "closed"
          /\ LotAt(positions, a).shares > 0 /\ HasPrice(positions, a[1])
          /\ LotAt(positions, b).status = "open"
          /\ LotAt(positions, b).shares > 0 /\ HasPrice(positions, b[1])
          /\ LotAt(positions, c).status = "open"
          /\ LotAt(positions, c).shares > 0 /\ ~HasPrice(positions, c[1])

\* The tickers of the positions a step opens.
OpenedTickers == {positions'[ki[1]].ticker : ki \in Opened(positions, positions')}

\* C12: in a cycle and an exchange, positions are opened for Long signals
\* only and for min(TOP_N, number of Long signals) of them; no Long signal
\* left out is stronger than one chosen, and of two Long signals of equal
\* strength the later in frame order is not chosen without the earlier.
C12_TopNByStrength ==
    [][pc = "tabs" =>
          \A x \in ExchangeSet :
              LET L == BuyRows(exchange_results[x], 1)
                  I == 1..Len(L)
                  chosen == {i \in I : L[i].Stock \in OpenedTickers}
              IN  /\ \A r \in SeqRange(exchange_results[x]) :
                        r.Stock \in OpenedTickers => r.Signal = 1
                  /\ Cardinality(chosen) = (IF Len(L) < TOP_N THEN Len(L) ELSE TOP_N)
                  /\ \A i \in chosen : \A j \in I \ chosen :
                        L[j].Score <= L[i].Score
                  /\ \A i, j \in I :
                        (i < j /\ L[i].Score = L[j].Score /\ j \in chosen)
                            => i \in chosen]_vars

\* The rows of this run's results, all exchanges.
AllRows == UNION {SeqRange(exchange_results[x]) : x \in ExchangeSet}

Defined(b) == ~IsNaN(b.EMA10) /\ ~IsNaN(b.EMA30) /\ ~IsNaN(b.RSI7)

LongCase(b) == Defined(b) /\ b.EMA10 > b.EMA30 /\ b.EMA30 > 0 /\ b.RSI7 < 70000

ShortCase(b) == Defined(b) /\ b.EMA10 < b.EMA30 /\ b.RSI7 > 30000

\* C13: a row of the results is Long with the positive strength
\* (EMA10 - EMA30) / EMA30 * 100 + (70 - RSI7), to the thousandth of a point,
\* when EMA10 > EMA30 > 0 and RSI7 < 70 (25.0 for 105, 100, 50); it is Short
\* when EMA10 < EMA30 and RSI7 > 30; in every other case it is Neutral with
\* strength 0.
C13_SignalCases ==
    \A r \in AllRows :
        LET b == r.DF
        IN  /\ LongCase(b) =>
                 LET q == r.Score - (70000 - b.RSI7)
                 IN  /\ r.Signal = 1
                     /\ r.Score > 0
                     /\ q * b.EMA30 <= (b.EMA10 - b.EMA30) * 100000
                     /\ (b.EMA10 - b.EMA30) * 100000 < (q + 1) * b.EMA30
            /\ (b.EMA10 = 105000 /\ b.EMA30 = 100000 /\ b.RSI7 = 50000)
                   => r.Signal = 1 /\ r.Score = 25000
            /\ ShortCase(b) => r.Signal = -1
            /\ (~LongCase(b) /\ ~ShortCase(b)) => r.Signal = 0 /\ r.Score = 0

\* The bar 105, 100, 50 has been scored Long with strength 25.0.
C13_Witness ==
    \E r \in AllRows :
        /\ r.DF.EMA10 = 105000 /\ r.DF.EMA30 = 100000 /\ r.DF.RSI7 = 50000
        /\ r.Signal = 1 /\ r.Score = 25000

\* C14: a ticker whose series is too short to give EMA10, EMA30 and RSI7 at
\* its last bar is left out of the cycle's scoring: it gets no row (no signal,
\* no default score) in the results, is not ranked and has no position opened.
C14_ShortSeriesExcluded ==
    [][/\ \A r \in AllRows' : Defined(r.DF)
       /\ pc = "tabs" =>
             \A r \in AllRows :
                 ~Defined(r.DF)
                     => /\ r.Stock \notin OpenedTickers
                        /\ \A x \in ExchangeSet :
                              \A b \in buy_signals(exchange_results[x]) :
                                  r \notin SeqRange(b)]_vars

\* C15: when exit evaluation reaches an open position at a price that, after
\* the ratchet, is at or below its trailing stop and at or above its take
\* profit, it closes the position with the Trailing Stop alert and appends no
\* Take-Profit alert for it.
C15_TrailingStopFirst ==
    [][pc = "check" =>
          \A ki \in AllLots(positions) :
              LET lot == LotAt(positions, ki)
                  p == CyclePrice(positions, ki[1])
                  ts == IF TRAILING_STOP
                        THEN Max(lot.trailing_stop, p * (1000 - STOP_LOSS))
                        ELSE lot.trailing_stop
              IN  (/\ lot.status = "open"
                   /\ Evaluated(positions, ki[1])
                   /\ HasPrice(positions, ki[1])
                   /\ p * 1000 <= ts
                   /\ p * 1000 >= lot.take_profit)
                      => /\ ClosedVia(ki, "trailing", Round2(p))
                         /\ ~\E j \in (Len(alerts) + 1)..Len(alerts') :
                               /\ alerts'[j].kind = "take_profit"
                               /\ alerts'[j].ticker = positions[ki[1]].ticker]_vars

\* A position has been closed by its trailing stop at a price at or above its
\* take profit.
C15_Witness ==
    /\ pc = "equity"
    /\ Len(alerts) > 0
    /\ alerts[Len(alerts)].kind = "trailing"
    /\ \E ki \in AllLots(positions) :
          /\ LotAt(positions, ki).status = "closed"
          /\ HasPrice(positions, ki[1])
          /\ CyclePrice(positions, ki[1]) * 1000 >= LotAt(positions, ki).take_profit
          /\ CyclePrice(positions, ki[1]) * 1000 <= LotAt(positions, ki).trailing_stop

\* The lots exit evaluation finds opened by this run's Tabs: the last lot of
\* every ticker that is in the top signals of its exchange.
Fresh ==
    {ki \in AllLots(positions) :
        /\ ki[2] = Len(positions[ki[1]].lots)
        /\ \E x \in ExchangeSet : \A top \in df_top_signals(exchange_results[x]) :
              \E i \in 1..Len(top) : top[i].Stock = positions[ki[1]].ticker}

\* C16: the exit evaluation of a cycle leaves the positions opened in that
\* cycle as they are: their trailing stop is not ratcheted and they are not
\* closed before the exit evaluation of the next cycle.
C16_NoExitInOpeningCycle ==
    [][pc = "check" =>
          \A ki \in Fresh : LotAt(positions', ki) = LotAt(positions, ki)]_vars

\* C17: entry, shares, stop_loss and take_profit of a position keep the values
\* of its opening in every later step, and the exit evaluation changes nothing
\* of the positions but trailing_stop and status: it adds and drops no key and
\* no lot.
C17_OpeningFieldsFrozen ==
    [][/\ \A ki \in AllLots(positions) :
             /\ ki \in AllLots(positions')
             /\ LotAt(positions', ki).entry = LotAt(positions, ki).entry
             /\ LotAt(positions', ki).shares = LotAt(positions, ki).shares
             /\ LotAt(positions', ki).stop_loss = LotAt(positions, ki).stop_loss
             /\ LotAt(positions', ki).take_profit = LotAt(positions, ki).take_profit
       /\ pc = "check" =>
             /\ AllLots(positions') = AllLots(positions)
             /\ \A k \in 1..Len(positions) :
                   positions'[k].ticker = positions[k].ticker]_vars

\* After more than one cycle, a position that was ratcheted and closed still
\* has the stop loss and the take profit of its entry, and its shares.
C17_Witness ==
    /\ cycle > 1
    /\ \E ki \in AllLots(positions) :
          LET lot == LotAt(positions, ki)
          IN  /\ lot.status = "closed"
              /\ lot.trailing_stop > lot.stop_loss
              /\ lot.shares > 0
              /\ lot.stop_loss = lot.entry * (1000 - STOP_LOSS)
              /\ lot.take_profit = lot.entry * (1000 + TAKE_PROFIT)

ClosedLots(pos) == {ki \in AllLots(pos) : LotAt(pos, ki).status = "closed"}

\* C18: the alert log is append-only and as long as the positions ever opened
\* plus the positions now closed: a step appends one entry for each position
\* it opens and one for each it closes, and no other entry.
C18_AlertLogCount ==
    [][/\ Len(alerts') >= Len(alerts)
       /\ SubSeq(alerts', 1, Len(alerts)) = alerts
       /\ Len(alerts') - Len(alerts) =
              Cardinality(Opened(positions, positions'))
                  + Cardinality(Closing(positions, positions'))
       /\ CountKind(Appended(alerts, alerts'), {"buy"}) =
              Cardinality(Opened(positions, positions'))
       /\ CountKind(Appended(alerts, alerts'), CloseKinds) =
              Cardinality(Closing(positions, positions'))
       /\ Len(alerts') = Cardinality(AllLots(positions'))
                             + Cardinality(ClosedLots(positions'))]_vars

\* The log holds the opens and the closes of a run in which a ticker has been
\* bought twice and positions are both open and closed.
C18_Witness ==
    /\ Len(alerts) >= 5
    /\ ClosedLots(positions) # {}
    /\ AllLots(positions) \ ClosedLots(positions) # {}
    /\ \E k \in 1..Len(positions) : Len(positions[k].lots) >= 2

\* Every position holds a share count that is a number and not negative, and
\* every price of the run's results is not negative.
NonNegative(pos) ==
    /\ \A ki \in AllLots(pos) :
          ~IsNaN(LotAt(pos, ki).shares) /\ LotAt(pos, ki).shares >= 0
    /\ \A r \in AllRows : r.Price >= 0

\* C19: while prices and share counts are non-negative, no step lowers cash
\* and cash is never below INITIAL_CAPITAL; a step that closes no position
\* leaves cash as it is, the credits on close being its only writes.
C19_CashNeverFalls ==
    [][NonNegative(positions) =>
          /\ ~IsNaN(capital) /\ ~IsNaN(capital')
          /\ capital' >= capital
          /\ capital' >= INITIAL_CAPITAL
          /\ Closing(positions, positions') = {} => capital' = capital]_vars

\* Cash stands above INITIAL_CAPITAL after two positions with shares were
\* closed, every share count of the run a non-negative number.
C19_Witness ==
    /\ NonNegative(positions)
    /\ capital > INITIAL_CAPITAL
    /\ \E a, b \in ClosedLots(positions) :
          a # b /\ LotAt(positions, a).shares > 0 /\ LotAt(positions, b).shares > 0

\* C20: with TRAILING_STOP on and positive prices, every position open after
\* an exit evaluation has its trailing stop below its take profit; no exit
\* evaluation finds the price at or below the ratcheted trailing stop and at
\* or above the take profit at once, and none leaves a position open at a
\* price at or above its take profit.
C20_StopBelowTarget ==
    [][pc = "check" =>
          /\ \A ki \in AllLots(positions') :
                LotAt(positions', ki).status = "open"
                    => LotAt(positions', ki).trailing_stop
                           < LotAt(positions', ki).take_profit
          /\ \A ki \in AllLots(positions) :
                 LET lot == LotAt(positions, ki)
                     p == CyclePrice(positions, ki[1])
                     ts == Max(lot.trailing_stop, p * (1000 - STOP_LOSS))
                 IN  (/\ TRAILING_STOP
                      /\ lot.status = "open"
                      /\ Evaluated(positions, ki[1])
                      /\ HasPrice(positions, ki[1])
                      /\ p > 0)
                         => /\ ~(p * 1000 <= ts /\ p * 1000 >= lot.take_profit)
                            /\ LotAt(positions', ki).status = "open"
                                  => p * 1000 < lot.take_profit]_vars

\* An open position has gone through an exit evaluation that ratcheted its
\* trailing stop and left it open, below its take profit.
C20_Witness ==
    /\ pc = "equity"
    /\ \E ki \in AllLots(positions) :
          /\ LotAt(positions, ki).status = "open"
          /\ HasPrice(positions, ki[1])
          /\ Evaluated(positions, ki[1])
          /\ LotAt(positions, ki).trailing_stop > LotAt(positions, ki).stop_loss
          /\ LotAt(positions, ki).trailing_stop =
                 CyclePrice(positions, ki[1]) * (1000 - STOP_LOSS)
          /\ LotAt(positions, ki).trailing_stop < LotAt(positions, ki).take_profit

====
